---- MODULE Spec2Model ----
(***************************************************************************)
(* Model of mongolight/compiler.py:                                        *)
(*   MongoCompiler._translate_where  - WHERE tree -> MongoDB filter        *)
(*   SQLInsertCompiler.as_sql        - insert payload -> insert_one(doc)   *)
(*                                                                         *)
(* Python values are modelled as tagged records so that values of          *)
(* different Python types can be compared:                                 *)
(*   [lit |-> v]     an opaque scalar (the rhs of a condition, a cell)     *)
(*   [str |-> s]     a string value                                        *)
(*   [doc |-> f]     a dict; f is a function from keys to values           *)
(*   [list |-> s]    a list or tuple; s is a sequence of values            *)
(*   [raise |-> e]   the call raised exception e instead of returning      *)
(***************************************************************************)
EXTENDS Integers, Sequences, FiniteSets, TLC

VARIABLES
    node,        \* the WHERE tree handed to _translate_where (query.where)
    result,      \* what the call of _translate_where produced
    pc,          \* "build" while the tree is being built, "done" after the call
    query,       \* the insert query: insert_values, objs, value_rows, columns
    model,       \* query.model: _meta.db_table and _meta.concrete_fields
    connection,  \* the store: collection name -> documents given to insert_one
    data,        \* as_sql's local `data` in its last call
    document,    \* as_sql's local `document` in its last call
    outcome,     \* what the last call of as_sql returned or raised
    ncalls       \* number of calls of as_sql made so far

whereVars == <<node, result, pc>>
insertVars == <<query, model, connection, data, document, outcome, ncalls>>
vars == <<node, result, pc, query, model, connection, data, document, outcome, ncalls>>

(* ---------------------------------------------------------------------- *)
(* Bounds                                                                 *)
(* ---------------------------------------------------------------------- *)
\* Largest number of nodes (groups + leaves) of a WHERE tree.
MaxNodes == 5

(* ---------------------------------------------------------------------- *)
(* Python values                                                          *)
(* ---------------------------------------------------------------------- *)
Lit(v) == [lit |-> v]
Str(s) == [str |-> s]
Doc(f) == [doc |-> f]
List(s) == [list |-> s]
Raise(e) == [raise |-> e]
RaiseMsg(e, msg) == [raise |-> e, msg |-> msg]
IsRaise(x) == "raise" \in DOMAIN x
IsDoc(x) == "doc" \in DOMAIN x

\* Python's None.
None == [none |-> TRUE]

\* The dict {}.
EmptyFilter == Doc(<<>>)

(* ---------------------------------------------------------------------- *)
(* WHERE tree nodes (the shapes the docstring of _translate_where assumes) *)
(* ---------------------------------------------------------------------- *)
\* A composite node: children, connector, negated.
WhereNode(children, connector, negated) ==
    [children |-> children, connector |-> connector, negated |-> negated]

\* lhs of a condition that has lhs.target.column.
StructuredLhs(column) == [target |-> [column |-> column]]
\* lhs of a condition without target.column; str(lhs) renders as `text`.
PlainLhs(text) == [str |-> text]

\* A leaf condition with every attribute present.
Condition(lhs, lookup_name, rhs, negated) ==
    [lhs |-> lhs, lookup_name |-> lookup_name, rhs |-> rhs, negated |-> negated]

(* ---------------------------------------------------------------------- *)
(* MongoCompiler._translate_where                                         *)
(* ---------------------------------------------------------------------- *)
\* IsEmptyTree without the test of the children: only an absent node is empty.
IsEmptyTree_NoChildrenTest(n) ==
    \/ n = None
    \/ "children" \notin DOMAIN n

\* line 41: `not node or not getattr(node, 'children', [])`
IsEmptyTree(n) ==
    \/ n = None
    \/ "children" \notin DOMAIN n
    \/ n.children = <<>>

\* lines 51-55: child.lhs.target.column, else str(child.lhs)
FieldName(child) ==
    IF "target" \in DOMAIN child.lhs
    THEN child.lhs.target.column
    ELSE child.lhs.str

\* line 57: getattr(child, 'lookup_name', 'exact')
LookupName(child) ==
    IF "lookup_name" \in DOMAIN child THEN child.lookup_name ELSE "exact"

\* lines 78, 93: getattr(x, 'negated', False)
Negated(x) ==
    IF "negated" \in DOMAIN x THEN x.negated ELSE FALSE

\* LeafFilter with the gte branch copied from gt and the regex options left out.
LeafFilter_GteAsGt(child) ==
    LET field_name == FieldName(child)
        lookup == LookupName(child)
        value == Lit(child.rhs)
    IN  CASE lookup = "exact" -> Doc(field_name :> value)
          [] lookup = "gt" -> Doc(field_name :> Doc("$gt" :> value))
          [] lookup = "gte" -> Doc(field_name :> Doc("$gt" :> value))
          [] lookup = "lt" -> Doc(field_name :> Doc("$lt" :> value))
          [] lookup = "lte" -> Doc(field_name :> Doc("$lte" :> value))
          [] lookup = "in" -> Doc(field_name :> Doc("$in" :> value))
          [] lookup = "contains" -> Doc(field_name :> Doc("$regex" :> value))
          [] OTHER -> Doc(field_name :> value)

\* lines 60-76: the per-lookup fragment of a leaf
LeafFilter(child) ==
    LET field_name == FieldName(child)
        lookup == LookupName(child)
        value == Lit(child.rhs)
    IN  CASE lookup = "exact" -> Doc(field_name :> value)
          [] lookup = "gt" -> Doc(field_name :> Doc("$gt" :> value))
          [] lookup = "gte" -> Doc(field_name :> Doc("$gte" :> value))
          [] lookup = "lt" -> Doc(field_name :> Doc("$lt" :> value))
          [] lookup = "lte" -> Doc(field_name :> Doc("$lte" :> value))
          [] lookup = "in" -> Doc(field_name :> Doc("$in" :> value))
          [] lookup = "contains" ->
                Doc(field_name :> Doc(("$regex" :> value) @@ ("$options" :> Str("i"))))
          [] OTHER -> Doc(field_name :> value)

\* lines 78-84: the negation applied to a child's filter inside the loop.
\* field_name is the loop's local variable: <<>> while it is still unbound
\* (no leaf processed yet in this call), <<f>> once a leaf has set it.  Reading
\* it unbound raises UnboundLocalError.
NegateChild(child, child_filter, field_name) ==
    IF ~Negated(child) THEN child_filter
    ELSE IF field_name = <<>> THEN Raise("UnboundLocalError")
    ELSE IF field_name[1] \in DOMAIN child_filter.doc
         THEN Doc(field_name[1] :> Doc("$not" :> child_filter.doc[field_name[1]]))
         ELSE Doc("$not" :> child_filter)

\* Combine that unwraps a single filter under every connector.
Combine_UnwrapSingleOr(connector, filters) ==
    IF Len(filters) = 1 THEN filters[1]
    ELSE IF connector = "OR" THEN Doc("$or" :> List(filters))
    ELSE IF Len(filters) > 1 THEN Doc("$and" :> List(filters))
    ELSE Raise("IndexError")

\* lines 87-91: combination of the collected filters; filters[0] of an empty
\* list raises IndexError (line 91).
Combine(connector, filters) ==
    IF connector = "OR" THEN Doc("$or" :> List(filters))
    ELSE IF Len(filters) > 1 THEN Doc("$and" :> List(filters))
    ELSE IF Len(filters) = 0 THEN Raise("IndexError")
    ELSE filters[1]

\* lines 93-94: group-level negation
NegateNode(n, combined_filter) ==
    IF Negated(n) THEN Doc("$not" :> combined_filter) ELSE combined_filter

RECURSIVE _translate_where(_), ForChildren(_, _, _, _)

\* lines 44-85: the loop over node.children from position i on, with the
\* filters collected so far and the current binding of field_name.  Yields
\* [filters |-> ...] or the exception that ended the loop.
ForChildren(children, i, filters, field_name) ==
    IF i > Len(children) THEN [filters |-> filters]
    ELSE LET child == children[i]
             composite == "children" \in DOMAIN child
             inner == IF composite THEN _translate_where(child) ELSE LeafFilter(child)
             bound == IF composite THEN field_name ELSE <<FieldName(child)>>
         IN  IF IsRaise(inner) THEN inner
             ELSE LET child_filter == NegateChild(child, inner, bound)
                  IN  IF IsRaise(child_filter) THEN child_filter
                      ELSE ForChildren(children, i + 1,
                                       Append(filters, child_filter), bound)

\* lines 41-96
_translate_where(n) ==
    IF IsEmptyTree(n) THEN EmptyFilter
    ELSE LET loop == ForChildren(n.children, 1, <<>>, <<>>)
         IN  IF IsRaise(loop) THEN loop
             ELSE LET combined_filter == Combine(n.connector, loop.filters)
                  IN  IF IsRaise(combined_filter) THEN combined_filter
                      ELSE NegateNode(n, combined_filter)

(* ---------------------------------------------------------------------- *)
(* Input domains                                                          *)
(* ---------------------------------------------------------------------- *)
Connectors == {"AND", "OR"}

\* Leaves used inside nested trees.
TreeLeaves ==
    { Condition(StructuredLhs("age"), "gt", 18, neg) : neg \in BOOLEAN }
    \cup { Condition(StructuredLhs("status"), "exact", 1, neg) : neg \in BOOLEAN }

RECURSIVE Size(_), SumSizes(_, _)
SumSizes(children, i) ==
    IF i > Len(children) THEN 0 ELSE Size(children[i]) + SumSizes(children, i + 1)
\* Number of nodes of a tree.
Size(n) ==
    IF n = None THEN 0
    ELSE IF "children" \in DOMAIN n THEN 1 + SumSizes(n.children, 1)
    ELSE 1

InsertAt(s, i, x) == SubSeq(s, 1, i - 1) \o <<x>> \o SubSeq(s, i, Len(s))

(* ---------------------------------------------------------------------- *)
(* State machine of the WHERE translation                                 *)
(* ---------------------------------------------------------------------- *)
\* Marks an absent attribute (hasattr is False) and a local not yet assigned.
Absent == [absent |-> TRUE]

\* The insert side while the WHERE translation is exercised: nothing to insert.
IdleInsert ==
    /\ query = [insert_values |-> Absent, objs |-> Absent,
                value_rows |-> Absent, columns |-> Absent]
    /\ model = [_meta |-> [db_table |-> "users",
                           concrete_fields |-> <<[column |-> "id"], [column |-> "name"]>>]]
    /\ connection = [c \in {"users", "orders"} |-> <<>>]
    /\ data = Absent
    /\ document = Absent
    /\ outcome = Absent
    /\ ncalls = 0

InitWhere ==
    /\ node = None
    /\ result = Absent
    /\ pc = "build"
    /\ IdleInsert

\* The query layer creates an empty group as the tree.
NewGroup ==
    /\ pc = "build"
    /\ node = None
    /\ \E c \in Connectors, neg \in BOOLEAN : node' = WhereNode(<<>>, c, neg)
    /\ UNCHANGED <<result, pc>>
    /\ UNCHANGED insertVars

\* The query layer adds a condition to the root group, at any position.
AddChild ==
    /\ pc = "build"
    /\ node # None
    /\ Size(node) < MaxNodes
    /\ \E leaf \in TreeLeaves, i \in 1..(Len(node.children) + 1) :
          node' = [node EXCEPT !.children = InsertAt(@, i, leaf)]
    /\ UNCHANGED <<result, pc>>
    /\ UNCHANGED insertVars

\* The query layer nests the tree built so far in a new group.
Nest ==
    /\ pc = "build"
    /\ node # None
    /\ Size(node) < MaxNodes
    /\ \E c \in Connectors, neg \in BOOLEAN : node' = WhereNode(<<node>>, c, neg)
    /\ UNCHANGED <<result, pc>>
    /\ UNCHANGED insertVars

\* The call self._translate_where(query.where) on the tree built so far.
Translate ==
    /\ pc = "build"
    /\ result' = _translate_where(node)
    /\ pc' = "done"
    /\ UNCHANGED node
    /\ UNCHANGED insertVars

NextWhere == NewGroup \/ AddChild \/ Nest \/ Translate

SpecWhere == InitWhere /\ [][NextWhere]_vars

(* ---------------------------------------------------------------------- *)
(* Translation of single-condition groups over every kind of leaf          *)
(* ---------------------------------------------------------------------- *)
LeafFields == {StructuredLhs("age"), StructuredLhs("name"), PlainLhs("age")}
LeafLookups ==
    {"exact", "gt", "gte", "lt", "lte", "in", "contains", "startswith"}
LeafValues == {18, 21}

\* Every leaf: lookup_name and negated may each be missing from the node.
AllLeaves ==
    LET full == { Condition(l, op, v, neg) :
                    l \in LeafFields, op \in LeafLookups,
                    v \in LeafValues, neg \in BOOLEAN }
        noLookup == { [lhs |-> l, rhs |-> v, negated |-> neg] :
                    l \in LeafFields, v \in LeafValues, neg \in BOOLEAN }
        noNegated == { [lhs |-> l, lookup_name |-> op, rhs |-> v] :
                    l \in LeafFields, op \in LeafLookups, v \in LeafValues }
    IN  full \cup noLookup \cup noNegated

\* Django's connectors; XOR stands for "any other connector".
LeafConnectors == {"AND", "OR", "XOR"}

InitLeaf ==
    /\ node \in { WhereNode(<<leaf>>, c, neg) :
                    leaf \in AllLeaves, c \in LeafConnectors, neg \in BOOLEAN }
    /\ result = Absent
    /\ pc = "build"
    /\ IdleInsert

NextLeaf == Translate

SpecLeaf == InitLeaf /\ [][NextLeaf]_vars

(* ---------------------------------------------------------------------- *)
(* Properties of _translate_where                                         *)
(* ---------------------------------------------------------------------- *)
\* The group's connector and negation undone: the list of fragments that a
\* returned filter r holds for a group n with at least one child.
Fragments(n, r) ==
    LET combined == IF Negated(n) THEN r.doc["$not"] ELSE r
    IN  IF n.connector = "OR" THEN combined.doc["$or"].list
        ELSE IF Len(n.children) > 1 THEN combined.doc["$and"].list
        ELSE <<combined>>

IsGroup(n) == n # None /\ "children" \in DOMAIN n

\* No group below the root is empty (section 3 of the specification: children
\* may be empty only at the tree root).
RECURSIVE NoEmptyGroupBelow(_)
NoEmptyGroupBelow(n) ==
    \A i \in 1..Len(n.children) :
        "children" \in DOMAIN n.children[i] =>
            /\ n.children[i].children # <<>>
            /\ NoEmptyGroupBelow(n.children[i])

WellFormed(n) == n = None \/ NoEmptyGroupBelow(n)

\* C1: an absent node and a group with no children translate to {}, for
\* either connector and either value of the group's negated flag.
C1_EmptyTreeIsEmptyFilter ==
    (pc = "done" /\ (node = None \/ node.children = <<>>)) => result = EmptyFilter

\* C1 witness: a negated group with no children was translated to {}.
C1_Witness ==
    /\ pc = "done"
    /\ IsGroup(node)
    /\ node.children = <<>>
    /\ node.negated
    /\ result = EmptyFilter

\* The fragment table of the claim C5, by lookup name.
TableValue(op, v) ==
    CASE op = "exact" -> Lit(v)
      [] op \in {"gt", "gte", "lt", "lte", "in"} -> Doc(("$" \o op) :> Lit(v))
      [] op = "contains" -> Doc([k \in {"$regex", "$options"} |->
                                    IF k = "$regex" THEN Lit(v) ELSE Str("i")])
      [] OTHER -> Lit(v)

\* What C5 says a leaf contributes: {f: table value}, and {f: {"$not": table value}}
\* when the leaf is negated.
TableFragment(leaf) ==
    LET f == FieldName(leaf)
        op == IF "lookup_name" \in DOMAIN leaf THEN leaf.lookup_name ELSE "missing"
        inner == TableValue(op, leaf.rhs)
    IN  IF "negated" \in DOMAIN leaf /\ leaf.negated
        THEN Doc(f :> Doc("$not" :> inner))
        ELSE Doc(f :> inner)

\* C5: the fragment a leaf contributes follows the fixed table, and a negated
\* leaf is negated inside its field, {f: {"$not": inner}}.
C5_LeafFragmentTable ==
    (pc = "done" /\ Len(node.children) = 1) =>
        /\ ~IsRaise(result)
        /\ Fragments(node, result) = <<TableFragment(node.children[1])>>
        /\ Negated(node.children[1]) =>
              "$not" \notin DOMAIN Fragments(node, result)[1].doc

\* C5 witness: a negated "contains" leaf was translated to the field-scoped
\* negation of the case-insensitive regex.
C5_Witness ==
    /\ pc = "done"
    /\ LookupName(node.children[1]) = "contains"
    /\ Negated(node.children[1])
    /\ FieldName(node.children[1]) = "name"
    /\ node.children[1].rhs = 21
    /\ Fragments(node, result)[1] =
          Doc("name" :> Doc("$not" :>
              Doc([k \in {"$regex", "$options"} |->
                      IF k = "$regex" THEN Lit(21) ELSE Str("i")])))

\* C2 as stated: a single-leaf group translates the same under AND and OR.
C2_ConnectorIndependent ==
    (pc = "done" /\ Len(node.children) = 1 /\ node.connector \in {"AND", "OR"}) =>
        /\ result = _translate_where([node EXCEPT !.connector = "AND"])
        /\ result = _translate_where([node EXCEPT !.connector = "OR"])

\* C2 amended: for a single-leaf group the translation under AND is the leaf's
\* fragment F itself and the translation under OR is {"$or": [F]} (each inside
\* {"$not": ...} when the group is negated).
C2_SingleLeafOrWrapsAndResult ==
    (pc = "done" /\ Len(node.children) = 1 /\ node.connector \in {"AND", "OR"}) =>
        LET F == _translate_where(WhereNode(node.children, "AND", FALSE))
            combined == IF node.connector = "OR" THEN Doc("$or" :> List(<<F>>)) ELSE F
        IN  /\ ~IsRaise(F)
            /\ result = IF node.negated THEN Doc("$not" :> combined) ELSE combined

\* C2 witness: a single-leaf OR group was translated to a one-element $or.
C2_Witness ==
    /\ pc = "done"
    /\ Len(node.children) = 1
    /\ node.connector = "OR"
    /\ ~node.negated
    /\ result = Doc("$or" :> List(<<TableFragment(node.children[1])>>))

\* C3: the call returns a filter document and never raises, for every tree
\* built from leaves and non-empty nested groups.
C3_TranslateIsTotal ==
    (pc = "done" /\ WellFormed(node)) => (~IsRaise(result) /\ IsDoc(result))

\* C4: a negated group with at least one child contributes {"$not": C}, C
\* being the translation of the same group with negated = false: at the root,
\* and as a child in its parent's list (stated for the calls that return).
C4_GroupNegatedOnce ==
    (pc = "done" /\ IsGroup(node) /\ node.children # <<>>
        /\ WellFormed(node) /\ ~IsRaise(result)) =>
        /\ node.negated =>
              result = Doc("$not" :> _translate_where([node EXCEPT !.negated = FALSE]))
        /\ \A i \in 1..Len(node.children) :
              LET G == node.children[i]
              IN  ("children" \in DOMAIN G /\ G.negated) =>
                    /\ Fragments(node, result)[i] =
                          Doc("$not" :> _translate_where([G EXCEPT !.negated = FALSE]))
                    /\ Fragments(node, result)[i] = _translate_where(G)

\* The translation of a child as C6 states it: the table fragment of a leaf,
\* the translation of a nested group.
ChildTranslation(child) ==
    IF "children" \in DOMAIN child THEN _translate_where(child) ELSE TableFragment(child)

\* C6: a non-negated group with n >= 1 children gives {"$or": [fragments]} under
\* OR, the single fragment or {"$and": [fragments]} otherwise, the i-th fragment
\* being the translation of the i-th child.
C6_Combination ==
    (pc = "done" /\ IsGroup(node) /\ node.children # <<>>
        /\ WellFormed(node) /\ ~node.negated) =>
        LET n == Len(node.children)
            fragments == [i \in 1..n |-> ChildTranslation(node.children[i])]
        IN  result = IF node.connector = "OR" THEN Doc("$or" :> List(fragments))
                     ELSE IF n = 1 THEN fragments[1]
                     ELSE Doc("$and" :> List(fragments))

(* ---------------------------------------------------------------------- *)
(* SQLInsertCompiler.as_sql                                               *)
(* ---------------------------------------------------------------------- *)
\* Largest number of cells of a row.
MaxRowLen == 2
\* Largest number of rows of a multi-row payload.
MaxRows == 2
\* Largest number of calls of as_sql in one behaviour.
MaxCalls == 2

IsList(x) == "list" \in DOMAIN x

\* hasattr(obj, name)
HasAttr(obj, name) == obj[name] # Absent

\* Python truth value of a value
Truthy(x) ==
    CASE "list" \in DOMAIN x -> x.list # <<>>
      [] "str" \in DOMAIN x -> x.str # ""
      [] "doc" \in DOMAIN x -> DOMAIN x.doc # {}
      [] "lit" \in DOMAIN x -> x.lit # 0
      [] OTHER -> FALSE

NoValuesMsg == "No se encontraron valores para insertar en el query."
CountMismatchMsg == "El número de valores no coincide con el número de campos"
UnknownFormatMsg == "Formato de datos de inserción desconocido."

\* Data with objs looked up before insert_values.
Data_ObjsFirst(q) ==
    IF HasAttr(q, "objs") /\ Truthy(q.objs) THEN q.objs
    ELSE IF HasAttr(q, "insert_values") /\ Truthy(q.insert_values) THEN q.insert_values
    ELSE IF HasAttr(q, "value_rows") /\ Truthy(q.value_rows) THEN q.value_rows
    ELSE RaiseMsg("NotImplementedError", NoValuesMsg)

\* lines 116-124: the insert data, from the first attribute that has some
Data(q) ==
    IF HasAttr(q, "insert_values") /\ Truthy(q.insert_values) THEN q.insert_values
    ELSE IF HasAttr(q, "objs") /\ Truthy(q.objs) THEN q.objs
    ELSE IF HasAttr(q, "value_rows") /\ Truthy(q.value_rows) THEN q.value_rows
    ELSE RaiseMsg("NotImplementedError", NoValuesMsg)

\* lines 128-132: query.columns when set and not empty, else the columns of
\* the model's concrete fields
FieldNames(q, m) ==
    IF HasAttr(q, "columns") /\ Truthy(q.columns) THEN q.columns.list
    ELSE [i \in 1..Len(m._meta.concrete_fields) |-> m._meta.concrete_fields[i].column]

Min(a, b) == IF a < b THEN a ELSE b

\* dict(zip(keys, values)): pairs up to the shorter length, a later pair
\* replacing an earlier one with the same key
DictZip(keys, values) ==
    LET n == Min(Len(keys), Len(values))
        last(k) == CHOOSE i \in 1..n : keys[i] = k /\ \A j \in (i + 1)..n : keys[j] # k
    IN  Doc([k \in {keys[i] : i \in 1..n} |-> values[last(k)]])

\* Document without the length test of the flat row.
Document_NoLengthTest(d, field_names) ==
    IF IsList(d)
    THEN LET first_elem == d.list[1]
         IN  IF ~IsList(first_elem) /\ ~IsDoc(first_elem)
             THEN DictZip(field_names, d.list)
             ELSE IF IsList(first_elem) THEN DictZip(field_names, first_elem.list)
             ELSE first_elem
    ELSE RaiseMsg("NotImplementedError", UnknownFormatMsg)

\* Document that takes the last row of a multi-row payload instead of the first.
Document_LastRow(d, field_names) ==
    IF IsList(d)
    THEN LET first_elem == d.list[1]
             last_elem == d.list[Len(d.list)]
         IN  IF ~IsList(first_elem) /\ ~IsDoc(first_elem)
             THEN IF Len(d.list) # Len(field_names)
                  THEN RaiseMsg("NotImplementedError", CountMismatchMsg)
                  ELSE DictZip(field_names, d.list)
             ELSE IF IsList(last_elem) THEN DictZip(field_names, last_elem.list)
             ELSE last_elem
    ELSE RaiseMsg("NotImplementedError", UnknownFormatMsg)

\* lines 136-158: the document built from the data, or the exception raised
Document(d, field_names) ==
    IF IsList(d)
    THEN LET first_elem == d.list[1]
         IN  IF ~IsList(first_elem) /\ ~IsDoc(first_elem)
             THEN IF Len(d.list) # Len(field_names)
                  THEN RaiseMsg("NotImplementedError", CountMismatchMsg)
                  ELSE DictZip(field_names, d.list)
             ELSE IF IsList(first_elem) THEN DictZip(field_names, first_elem.list)
             ELSE IF IsDoc(first_elem) THEN first_elem
             ELSE IF Len(field_names) = 1 THEN Doc(field_names[1] :> first_elem)
             ELSE RaiseMsg("NotImplementedError", UnknownFormatMsg)
    ELSE RaiseMsg("NotImplementedError", UnknownFormatMsg)

\* line 165: return ("", ())
Returned == [return |-> <<"", <<>>>>]

\* lines 103-165: one call of as_sql
as_sql ==
    /\ ncalls < MaxCalls
    /\ ncalls' = ncalls + 1
    /\ LET d == Data(query)
           field_names == FieldNames(query, model)
           doc == Document(d, field_names)
           collection_name == model._meta.db_table
       IN  IF IsRaise(d)
           THEN /\ outcome' = d
                /\ data' = Absent
                /\ document' = Absent
                /\ connection' = connection
           ELSE IF IsRaise(doc)
           THEN /\ outcome' = doc
                /\ data' = d
                /\ document' = Absent
                /\ connection' = connection
           ELSE /\ outcome' = Returned
                /\ data' = d
                /\ document' = doc
                /\ connection' = [connection EXCEPT ![collection_name] = Append(@, doc)]
    /\ UNCHANGED <<query, model>>
    /\ UNCHANGED whereVars

(* ---------------------------------------------------------------------- *)
(* Insert payloads and the state machine of the insert path               *)
(* ---------------------------------------------------------------------- *)
SeqsOf(S, lo, hi) == UNION { [1..n -> S] : n \in lo..hi }

Cells == {Lit(1), Lit(2)}

\* A row of cells.
Rows == { List(r) : r \in SeqsOf(Cells, 1, MaxRowLen) }

\* A row given as a mapping.
DictRows ==
    { Doc("id" :> Lit(1)),
      Doc([k \in {"id", "name"} |-> IF k = "id" THEN Lit(1) ELSE Lit(2)]),
      Doc("nick" :> Lit(2)) }

\* The rows that follow the first one in a multi-row payload.
LaterRows == { List(<<Lit(2), Lit(1)>>), Doc("id" :> Lit(2)) }

\* A flat row is a list of cells; a multi-row payload is a first row followed
\* by later rows.
FlatPayloads == Rows
MultiRowPayloads ==
    { List(<<first>> \o rest) :
        first \in Rows \cup DictRows, rest \in SeqsOf(LaterRows, 0, MaxRows - 1) }

\* What query.insert_values may hold: nothing, an empty list, a string (not a
\* list or tuple), a flat row, several rows.
InsertValuesChoices ==
    {Absent, List(<<>>), Str("x")} \cup FlatPayloads \cup MultiRowPayloads
\* What query.objs and query.value_rows may hold; their cells differ from the
\* cells of insert_values, so the source of the data is visible in the data.
ObjsChoices == {Absent, List(<<>>), List(<<Doc("id" :> Lit(3))>>)}
ValueRowsChoices == {Absent, List(<<>>), List(<<List(<<Lit(4), Lit(5)>>)>>)}
ColumnsChoices == {Absent, List(<<>>), List(<<"id">>), List(<<"id", "name">>)}

Collections == {"users", "orders"}

InitInsert ==
    /\ node = None
    /\ result = Absent
    /\ pc = "build"
    /\ query \in [insert_values : InsertValuesChoices, objs : ObjsChoices,
                  value_rows : ValueRowsChoices, columns : ColumnsChoices]
    /\ model \in { [_meta |-> [db_table |-> t,
                               concrete_fields |-> <<[column |-> "id"], [column |-> "name"]>>]] :
                    t \in Collections }
    /\ connection \in { [c \in Collections |-> <<>>],
                        [c \in Collections |-> <<Doc("id" :> Lit(9))>>] }
    /\ data = Absent
    /\ document = Absent
    /\ outcome = Absent
    /\ ncalls = 0

NextInsert == as_sql

SpecInsert == InitInsert /\ [][NextInsert]_vars

(* ---------------------------------------------------------------------- *)
(* Properties of as_sql                                                   *)
(* ---------------------------------------------------------------------- *)
\* A list or tuple whose first element is not a list, tuple or dict.
IsFlatRow(d) ==
    /\ d # Absent
    /\ IsList(d)
    /\ ~IsList(d.list[1])
    /\ ~IsDoc(d.list[1])

\* A list or tuple whose first element is a list, tuple or dict.
IsMultiRow(d) ==
    /\ d # Absent
    /\ IsList(d)
    /\ IsList(d.list[1]) \/ IsDoc(d.list[1])

\* doc maps names[i] to values[i] for the first n positions and has no other key.
MapsPositions(doc, names, values, n) ==
    /\ IsDoc(doc)
    /\ DOMAIN doc.doc = { names[i] : i \in 1..n }
    /\ \A i \in 1..n : doc.doc[names[i]] = values[i]

\* C7: a flat row gives the document fieldNames[i] -> data[i] exactly when the
\* lengths agree; otherwise the field-count error is raised and no document is
\* built.
C7_FlatRowNeedsEqualLength ==
    (ncalls > 0 /\ IsFlatRow(data)) =>
        LET field_names == FieldNames(query, model)
        IN  IF Len(data.list) = Len(field_names)
            THEN /\ outcome = Returned
                 /\ MapsPositions(document, field_names, data.list, Len(field_names))
            ELSE /\ outcome = RaiseMsg("NotImplementedError", CountMismatchMsg)
                 /\ document = Absent

\* C7 witness: the flat row [1, 2] was inserted as {"id": 1, "name": 2}.
C7_Witness ==
    /\ ncalls > 0
    /\ data = List(<<Lit(1), Lit(2)>>)
    /\ outcome = Returned
    /\ document = Doc([k \in {"id", "name"} |-> IF k = "id" THEN Lit(1) ELSE Lit(2)])

\* C8: in a call on a multi-row payload the document is the first element
\* alone (a mapping verbatim, a row zipped against the field names), whatever
\* the later rows are, and exactly that one document is inserted.
C8_FirstRowOnly ==
    [][(ncalls' = ncalls + 1 /\ IsMultiRow(data')) =>
          LET first == data'.list[1]
              field_names == FieldNames(query, model)
              n == Min(Len(field_names), Len(first.list))
          IN  /\ outcome' = Returned
              /\ IF IsDoc(first) THEN document' = first
                 ELSE MapsPositions(document', field_names, first.list, n)
              /\ connection' = [connection EXCEPT
                                  ![model._meta.db_table] = Append(@, document')]
      ]_vars

\* C8 witness: a payload whose second row differs from its first was inserted
\* as its first row.
C8_Witness ==
    /\ ncalls > 0
    /\ data = List(<<List(<<Lit(1), Lit(2)>>), List(<<Lit(2), Lit(1)>>)>>)
    /\ outcome = Returned
    /\ document = Doc([k \in {"id", "name"} |-> IF k = "id" THEN Lit(1) ELSE Lit(2)])

\* Present and not empty.
HoldsData(x) == x # Absent /\ x # List(<<>>)

\* C9: the data is the first of insert_values, objs, value_rows that is
\* present and not empty, and the no-data error is raised exactly when none is.
C9_OrderedSourceLookup ==
    ncalls > 0 =>
        LET none == /\ ~HoldsData(query.insert_values)
                    /\ ~HoldsData(query.objs)
                    /\ ~HoldsData(query.value_rows)
        IN  /\ none <=> outcome = RaiseMsg("NotImplementedError", NoValuesMsg)
            /\ HoldsData(query.insert_values) => data = query.insert_values
            /\ (~HoldsData(query.insert_values) /\ HoldsData(query.objs)) =>
                   data = query.objs
            /\ (~HoldsData(query.insert_values) /\ ~HoldsData(query.objs)
                  /\ HoldsData(query.value_rows)) => data = query.value_rows

\* C9 witness: insert_values is empty, objs is absent, and value_rows was used.
C9_Witness ==
    /\ ncalls > 0
    /\ query.insert_values = List(<<>>)
    /\ query.objs = Absent
    /\ HoldsData(query.value_rows)
    /\ data = query.value_rows
    /\ outcome = Returned

\* C10: a call that raises leaves the store as it was; a call that returns
\* has appended exactly one document to the collection named db_table, and for
\* a positional payload that document has one key per field name.
C10_FailFastCompleteDocument ==
    [][(ncalls' = ncalls + 1) =>
          LET field_names == FieldNames(query, model)
          IN  IF IsRaise(outcome') THEN connection' = connection
              ELSE /\ outcome' = Returned
                   /\ connection' = [connection EXCEPT
                                       ![model._meta.db_table] = Append(@, document')]
                   /\ (IsFlatRow(data') \/ (IsMultiRow(data') /\ IsList(data'.list[1]))) =>
                          DOMAIN document'.doc =
                              { field_names[i] : i \in 1..Len(field_names) }
      ]_vars

====
